---- MODULE Spec2Model ----
(***************************************************************************)
(* Model of the authentication / authorization gates of the backend:       *)
(*   src/src/middlewares/auth.middleware.ts    (HTTP gate, role gate)      *)
(*   src/src/middlewares/socket.middleware.ts  (realtime gate, role gate)  *)
(*   src/src/controllers/product.controller.ts (routes and their chains)   *)
(*   src/src/controllers/user.controller.ts    (routes and their chains)   *)
(* JavaScript strings are sequences of one-character strings, so that      *)
(* String.split and String.includes are computed and not assumed.          *)
(***************************************************************************)
EXTENDS Integers, Sequences, FiniteSets, TLC

(* one request or handshake on its way down its chain *)
VARIABLES carrier, chain, step, stage, log
(* the tokens signed so far, the clock, and the connections served side by *)
(* side; used by the specifications that follow tokens and connections     *)
VARIABLES issued, now, conns

(* the SocketService object and the client sockets connected to it *)
VARIABLES socketService, sockets
(* the bootstrap of the process, the database connection object, the rows  *)
(* behind a repository with the calls in progress on it, and one call of   *)
(* a function that keeps no state                                          *)
VARIABLES boot, db, repo, call

vars == <<carrier, chain, step, stage, log, issued, now, conns,
          socketService, sockets, boot, db, repo, call>>
run == <<carrier, chain, step, stage, log>>
world == <<issued, now, conns>>
others == <<socketService, sockets, boot, db, repo, call>>

-----------------------------------------------------------------------------
(* Bounds of the enumerated inputs *)

MaxParts == 3
MaxRoles == 2
MaxRequired == 2
MaxTime == 1
MaxExpiry == 1
MaxConns == 2
MaxEvents == 3
MaxSockets == 2
MaxIds == 2

-----------------------------------------------------------------------------
(* String literals *)

BEARER == <<"B", "e", "a", "r", "e", "r">>
TOKENWORD == <<"T", "o", "k", "e", "n">>
T1 == <<"t", "1">>
T2 == <<"t", "2">>
ADMIN == <<"a", "d", "m", "i", "n">>
USER == <<"u", "s", "e", "r">>
EDITOR == <<"e", "d", "i", "t", "o", "r">>
SUPERADMIN == <<"s", "u", "p", "e", "r", "a", "d", "m", "i", "n">>
S1 == <<"s", "1">>
I1 == <<"i", "1">>
O1 == <<"o", "1">>
E1 == <<"e", "@", "x">>
N1 == <<"n", "1">>

SeqsUpTo(S, n) == UNION {[1..k -> S] : k \in 0..n}

-----------------------------------------------------------------------------
(* String.prototype.split(sep) for a one-character separator *)

RECURSIVE split(_, _)
split(s, sep) ==
  IF s = <<>> THEN << <<>> >>
  ELSE LET rest == split(Tail(s), sep)
       IN IF Head(s) = sep
          THEN << <<>> >> \o rest
          ELSE << <<Head(s)>> \o Head(rest) >> \o Tail(rest)

(* Array.prototype.join(sep): builds the header strings the clients send *)
RECURSIVE join(_, _)
join(ws, sep) ==
  IF ws = <<>> THEN <<>>
  ELSE IF Len(ws) = 1 THEN Head(ws)
  ELSE Head(ws) \o <<sep>> \o join(Tail(ws), sep)

(* String.prototype.includes: substring search *)
StringIncludes(hay, needle) ==
  \E i \in 0..(Len(hay) - Len(needle)) : SubSeq(hay, i + 1, i + Len(needle)) = needle

(* Array.prototype.includes: element search, left to right *)
RECURSIVE ArrayIncludes(_, _)
ArrayIncludes(arr, x) ==
  IF arr = <<>> THEN FALSE
  ELSE Head(arr) = x \/ ArrayIncludes(Tail(arr), x)

-----------------------------------------------------------------------------
(* JavaScript values found in a token payload *)

Absent == [t |-> "absent", s |-> <<>>, a |-> <<>>]
Null == [t |-> "null", s |-> <<>>, a |-> <<>>]
Num == [t |-> "number", s |-> <<>>, a |-> <<>>]
Str(c) == [t |-> "string", s |-> c, a |-> <<>>]
Arr(x) == [t |-> "array", s |-> <<>>, a |-> x]

(* truthiness: undefined, null and '' are falsy; arrays and the (non-zero) *)
(* number are truthy                                                       *)
Truthy(v) ==
  CASE v.t = "string" -> v.s # <<>>
    [] v.t = "array" -> TRUE
    [] v.t = "number" -> TRUE
    [] OTHER -> FALSE

(* a || b *)
Or(a, b) == IF Truthy(a) THEN a ELSE b

Keys == {"sub", "id", "email", "roles", "name"}

EmptyObj == [k \in Keys |-> Absent]

RoleNames == {ADMIN, USER, EDITOR}

RolesValues ==
  {Absent, Null, Num, Str(<<>>), Str(SUPERADMIN)} \cup {Arr(x) : x \in SeqsUpTo(RoleNames, MaxRoles)}

(* the decoded payloads the verifier may hand back *)
ClaimsObjects ==
  {[k \in Keys |-> CASE k = "sub" -> c[1]
                     [] k = "id" -> c[2]
                     [] k = "email" -> c[3]
                     [] k = "roles" -> c[4]
                     [] OTHER -> c[5]] :
     c \in {Absent, Str(S1)} \X {Absent, Str(I1)} \X {Absent, Str(E1)}
           \X RolesValues \X {Absent, Str(N1)}}

-----------------------------------------------------------------------------
(* The credential verifier jwt.verify(token, secret) *)

(* config.jwtSecret, resolved once from the container *)
secret == "jwtSecret"

ErrorClasses == {"TokenExpiredError", "JsonWebTokenError", "Error"}

(* error instanceof cls: TokenExpiredError extends JsonWebTokenError extends Error *)
InstanceOf(err, cls) ==
  CASE cls = "TokenExpiredError" -> err = "TokenExpiredError"
    [] cls = "JsonWebTokenError" -> err \in {"TokenExpiredError", "JsonWebTokenError"}
    [] OTHER -> TRUE

NoOut == [kind |-> "none", obj |-> EmptyObj, err |-> ""]
Decoded(o) == [kind |-> "object", obj |-> o, err |-> ""]
StringPayload == [kind |-> "string", obj |-> EmptyObj, err |-> ""]
Throws(c) == [kind |-> "throw", obj |-> EmptyObj, err |-> c]

(* what the library can do with a token: return the decoded payload (an    *)
(* object, or a string when the payload is not a JSON object) or throw; an *)
(* empty token is refused with a JsonWebTokenError                         *)
jwtVerify(token, sec) ==
  IF token = <<>> THEN {Throws("JsonWebTokenError")}
  ELSE {Decoded(o) : o \in ClaimsObjects} \cup {StringPayload} \cup {Throws(c) : c \in ErrorClasses}

-----------------------------------------------------------------------------
(* Carriers, events and gate results *)

NoValue == [present |-> FALSE, v |-> <<>>]
Value(c) == [present |-> TRUE, v |-> c]

(* !x for an optional string: undefined and '' are falsy *)
Falsy(x) == ~x.present \/ x.v = <<>>

NoUser == [attached |-> FALSE, obj |-> EmptyObj]
Attached(o) == [attached |-> TRUE, obj |-> o]

Event(by, ev, status, msg, tok, out) ==
  [by |-> by, ev |-> ev, status |-> status, msg |-> msg, tok |-> tok, out |-> out]

(* res.status(status).json({ message }) *)
Res(by, status, msg) == Event(by, "res", status, msg, <<>>, NoOut)
(* next() *)
NextOk(by) == Event(by, "next", 0, "", <<>>, NoOut)
(* next(new Error(msg)) *)
NextErr(by, msg) == Event(by, "nextErr", 0, msg, <<>>, NoOut)
(* a call of jwt.verify(token, secret) and what it did *)
Verify(by, tok, out) == Event(by, "verify", 0, "", tok, out)
(* an exception leaving the middleware *)
Thrown(by, name) == Event(by, "throw", 0, name, <<>>, NoOut)
(* a call of a service method *)
Svc(by, method) == Event(by, "svc", 0, method, <<>>, NoOut)

Gate(user, events, proceed) == [user |-> user, events |-> events, proceed |-> proceed]

-----------------------------------------------------------------------------
(* Principal construction *)

(* { ...b, ...a }: own properties of a overwrite those of b *)
Spread(b, a) == [k \in Keys |-> IF a[k].t # "absent" THEN a[k] ELSE b[k]]

(* { id: .., email: .., roles: .., ...decoded } *)
BuildUser(decoded) ==
  LET normalized ==
        [k \in Keys |->
           CASE k = "id" -> Or(Or(decoded["sub"], decoded["id"]), Str(<<>>))
             [] k = "email" -> Or(decoded["email"], Str(<<>>))
             [] k = "roles" -> IF decoded["roles"].t = "array" THEN decoded["roles"] ELSE Arr(<<>>)
             [] OTHER -> Absent]
  IN Spread(normalized, decoded)

(* variant: the base class is tested before its subclass *)
ErrorMessage_BaseFirst(err) ==
  IF InstanceOf(err, "JsonWebTokenError") THEN "Invalid token format"
  ELSE IF InstanceOf(err, "TokenExpiredError") THEN "Token expired"
  ELSE "Invalid token"

(* the catch block: message by error class, in the order of the checks *)
ErrorMessage(err) ==
  IF InstanceOf(err, "TokenExpiredError") THEN "Token expired"
  ELSE IF InstanceOf(err, "JsonWebTokenError") THEN "Invalid token format"
  ELSE "Invalid token"

-----------------------------------------------------------------------------
(* HTTP gate *)

(* variant: only the empty string counts as a missing header *)
NoAuthHeader_EmptyOnly(authHeader) == authHeader.present /\ authHeader.v = <<>>

NoAuthHeader(authHeader) == Falsy(authHeader)

(* variant: the scheme word is not compared *)
BadFormat_LengthOnly(parts) == Len(parts) # 2

BadFormat(parts) == Len(parts) # 2 \/ parts[1] # BEARER

FormatMessage == "Authorization header format should be \"Bearer {token}\""

(* the token the HTTP gate hands to the verifier, when it gets that far *)
HttpToken(req) ==
  LET parts == split(req.authorization.v, " ")
  IN IF NoAuthHeader(req.authorization) \/ BadFormat(parts) THEN NoValue ELSE Value(parts[2])

(* variant: a failed verification is tried a second time *)
createAuthMiddleware_Retry(req, o) ==
  LET authHeader == req.authorization
      parts == split(authHeader.v, " ")
  IN IF NoAuthHeader(authHeader)
     THEN Gate(req.user, <<Res("auth", 401, "No authorization header provided")>>, FALSE)
     ELSE IF BadFormat(parts)
     THEN Gate(req.user, <<Res("auth", 401, FormatMessage)>>, FALSE)
     ELSE LET token == parts[2]
          IN IF o.kind = "throw"
             THEN Gate(req.user,
                       <<Verify("auth", token, o), Verify("auth", token, o),
                         Res("auth", 401, ErrorMessage(o.err))>>,
                       FALSE)
             ELSE Gate(IF o.kind = "object" THEN Attached(BuildUser(o.obj)) ELSE req.user,
                       <<Verify("auth", token, o), NextOk("auth")>>,
                       TRUE)

(* o is what jwt.verify does with the extracted token *)
createAuthMiddleware(req, o) ==
  LET authHeader == req.authorization
      parts == split(authHeader.v, " ")
  IN IF NoAuthHeader(authHeader)
     THEN Gate(req.user, <<Res("auth", 401, "No authorization header provided")>>, FALSE)
     ELSE IF BadFormat(parts)
     THEN Gate(req.user, <<Res("auth", 401, FormatMessage)>>, FALSE)
     ELSE LET token == parts[2]
          IN IF o.kind = "throw"
             THEN Gate(req.user,
                       <<Verify("auth", token, o), Res("auth", 401, ErrorMessage(o.err))>>,
                       FALSE)
             ELSE Gate(IF o.kind = "object" THEN Attached(BuildUser(o.obj)) ELSE req.user,
                       <<Verify("auth", token, o), NextOk("auth")>>,
                       TRUE)

-----------------------------------------------------------------------------
(* Realtime gate *)

(* variant: the scheme word of the header is not compared *)
HeaderToken_AnyScheme(authHeader) ==
  LET parts == split(authHeader.v, " ")
  IN IF ~Falsy(authHeader) /\ Len(parts) = 2 THEN Value(parts[2]) ELSE NoValue

(* the token of an authorization header of the form "Bearer <token>" *)
HeaderToken(authHeader) ==
  LET parts == split(authHeader.v, " ")
  IN IF ~Falsy(authHeader) /\ Len(parts) = 2 /\ parts[1] = BEARER
     THEN Value(parts[2])
     ELSE NoValue

(* variant: the header is looked at first *)
SocketToken_HeaderFirst(socket) ==
  IF ~Falsy(HeaderToken(socket.authorization)) THEN HeaderToken(socket.authorization)
  ELSE socket.authToken

(* handshake.auth?.token first, then the Bearer token of the header *)
SocketToken(socket) ==
  IF ~Falsy(socket.authToken) THEN socket.authToken
  ELSE HeaderToken(socket.authorization)

(* reading handshake.headers.authorization of a handshake that has no     *)
(* headers object throws; the read happens only when auth.token is falsy   *)
ExtractionThrows(socket) == Falsy(socket.authToken) /\ ~socket.headers

(* the catch around verification and next() *)
InnerCatch(err) == <<NextErr("socketAuth", ErrorMessage(err))>>

(* variant: the outer catch lets the exception go *)
OuterCatch_Rethrow(err) == <<Thrown("socketAuth", err)>>

(* the catch around the whole middleware body *)
OuterCatch(err) == <<NextErr("socketAuth", "Authentication failed")>>

createSocketAuthMiddleware(socket, o) ==
  LET token == SocketToken(socket)
  IN IF ExtractionThrows(socket)
     THEN Gate(socket.user, OuterCatch("TypeError"), FALSE)
     ELSE IF Falsy(token)
     THEN Gate(socket.user, <<NextErr("socketAuth", "Authentication required")>>, FALSE)
     ELSE IF o.kind = "throw"
     THEN Gate(socket.user, <<Verify("socketAuth", token.v, o)>> \o InnerCatch(o.err), FALSE)
     ELSE Gate(IF o.kind = "object" THEN Attached(BuildUser(o.obj)) ELSE socket.user,
               <<Verify("socketAuth", token.v, o), NextOk("socketAuth")>>,
               TRUE)

-----------------------------------------------------------------------------
(* Role gates *)

(* userRoles.includes(role): array search, substring search on a string,   *)
(* a TypeError on a value that has no includes                             *)
includes(userRoles, role) ==
  CASE userRoles.t = "array" -> IF ArrayIncludes(userRoles.a, role) THEN "true" ELSE "false"
    [] userRoles.t = "string" -> IF StringIncludes(userRoles.s, role) THEN "true" ELSE "false"
    [] OTHER -> "TypeError"

(* variant: roles.every(...) in place of roles.some(...) *)
RECURSIVE hasRequiredRoles_every(_, _)
hasRequiredRoles_every(roles, userRoles) ==
  IF roles = <<>> THEN "true"
  ELSE LET r == includes(userRoles, Head(roles))
       IN IF r = "true" THEN hasRequiredRoles_every(Tail(roles), userRoles) ELSE r

(* roles.some(role => userRoles.includes(role)) *)
RECURSIVE hasRequiredRoles(_, _)
hasRequiredRoles(roles, userRoles) ==
  IF roles = <<>> THEN "false"
  ELSE LET r == includes(userRoles, Head(roles))
       IN IF r = "false" THEN hasRequiredRoles(Tail(roles), userRoles) ELSE r

(* variant: the check for a missing user is left out *)
NotAuthenticated_Never(user) == FALSE

(* !req.user *)
NotAuthenticated(user) == ~user.attached

(* req.user.roles || [] *)
UserRoles(user) == Or(user.obj["roles"], Arr(<<>>))

hasRoles(roles, req) ==
  IF NotAuthenticated(req.user)
  THEN Gate(req.user, <<Res("hasRoles", 401, "User not authenticated")>>, FALSE)
  ELSE LET r == hasRequiredRoles(roles, UserRoles(req.user))
       IN IF r = "TypeError" THEN Gate(req.user, <<Thrown("hasRoles", "TypeError")>>, FALSE)
          ELSE IF r = "false"
          THEN Gate(req.user, <<Res("hasRoles", 403, "Insufficient permissions")>>, FALSE)
          ELSE Gate(req.user, <<NextOk("hasRoles")>>, TRUE)

(* variant: every required role must be held *)
createSocketRolesMiddleware_Every(roles, socket) ==
  IF NotAuthenticated(socket.user)
  THEN Gate(socket.user, <<NextErr("socketRoles", "User not authenticated")>>, FALSE)
  ELSE LET r == hasRequiredRoles_every(roles, UserRoles(socket.user))
       IN IF r = "TypeError" THEN Gate(socket.user, <<Thrown("socketRoles", "TypeError")>>, FALSE)
          ELSE IF r = "false"
          THEN Gate(socket.user, <<NextErr("socketRoles", "Insufficient permissions")>>, FALSE)
          ELSE Gate(socket.user, <<NextOk("socketRoles")>>, TRUE)

createSocketRolesMiddleware(roles, socket) ==
  IF NotAuthenticated(socket.user)
  THEN Gate(socket.user, <<NextErr("socketRoles", "User not authenticated")>>, FALSE)
  ELSE LET r == hasRequiredRoles(roles, UserRoles(socket.user))
       IN IF r = "TypeError" THEN Gate(socket.user, <<Thrown("socketRoles", "TypeError")>>, FALSE)
          ELSE IF r = "false"
          THEN Gate(socket.user, <<NextErr("socketRoles", "Insufficient permissions")>>, FALSE)
          ELSE Gate(socket.user, <<NextOk("socketRoles")>>, TRUE)

-----------------------------------------------------------------------------
(* Error handling of the HTTP application *)

ApiError(message, statusCode) == [name |-> "ApiError", statusCode |-> statusCode, message |-> message]
GenericError(name) == [name |-> name, statusCode |-> 0, message |-> name]

errorMiddleware(err) ==
  IF err.name = "ApiError"
  THEN IF err.statusCode \in {400, 401, 403, 404}
       THEN Res("errorMiddleware", err.statusCode, err.message)
       ELSE Res("errorMiddleware", 500, err.message)
  ELSE IF err.name = "ValidationError" THEN Res("errorMiddleware", 400, err.message)
  ELSE IF err.name = "UnauthorizedError" THEN Res("errorMiddleware", 401, err.message)
  ELSE Res("errorMiddleware", 500, "Internal Server Error")

-----------------------------------------------------------------------------
(* Routes and the middleware chains the decorators attach to them *)

Mw(name, roles) == [mw |-> name, roles |-> roles]

auth == Mw("auth", <<>>)
adminOnly == Mw("hasRoles", <<ADMIN>>)

ProductWriteRoutes == {"POST /products", "PUT /products/:id", "DELETE /products/:id"}
HttpRoutes ==
  ProductWriteRoutes \cup {"GET /products", "GET /users", "GET /users/:id", "GET /admin"}

(* required is the role list handed to hasRoles on the README's role-guarded route *)
RouteChain(route, required) ==
  CASE route = "POST /products" -> <<auth, adminOnly, Mw("createProduct", <<>>)>>
    [] route = "PUT /products/:id" -> <<auth, adminOnly, Mw("updateProduct", <<>>)>>
    [] route = "DELETE /products/:id" -> <<auth, adminOnly, Mw("deleteProduct", <<>>)>>
    [] route = "GET /products" -> <<Mw("getAllProducts", <<>>)>>
    [] route = "GET /users" -> <<Mw("getAllUsers", <<>>)>>
    [] route = "GET /users/:id" -> <<Mw("getUserById", <<>>)>>
    [] OTHER -> <<auth, Mw("hasRoles", required), Mw("adminRoute", <<>>)>>

-----------------------------------------------------------------------------
(* Inputs *)

HeaderWords == {BEARER, TOKENWORD, T1, <<>>}

Headers ==
  {NoValue} \cup {Value(join(ws, " ")) : ws \in SeqsUpTo(HeaderWords, MaxParts) \ {<<>>}}

(* req.params.id on the route that has one *)
Params(route) == IF route = "GET /users/:id" THEN {I1, O1} ELSE {<<>>}

RequiredLists == SeqsUpTo(RoleNames, MaxRequired)

AuthTokens == {Value(<<>>), Value(T2)}

(* handshakes <<auth.token, authorization header, has a headers object>>:  *)
(* without an auth-payload token every header; with one, a few; and the    *)
(* hand-built handshake that lacks the headers object                      *)
Handshakes ==
  {<<NoValue, h, TRUE>> : h \in Headers}
    \cup {<<a, h, TRUE>> :
            a \in AuthTokens,
            h \in {NoValue, Value(join(<<BEARER, T1>>, " ")), Value(join(<<TOKENWORD, T1>>, " "))}}
    \cup {<<a, NoValue, FALSE>> : a \in {NoValue} \cup AuthTokens}

SocketChains ==
  {<<Mw("socketAuth", <<>>)>>}
    \cup {<<Mw("socketAuth", <<>>), Mw("socketRoles", r)>> : r \in RequiredLists}

-----------------------------------------------------------------------------
(* State machine: one request or handshake travels down its chain; the    *)
(* carrier is created for it and dropped at its end                       *)

Idle == [transport |-> "none", route |-> "", id |-> <<>>, headers |-> TRUE,
         authorization |-> NoValue, authToken |-> NoValue, user |-> NoUser]

NoRun ==
  /\ carrier = Idle
  /\ chain = <<>>
  /\ step = 0
  /\ stage = "idle"
  /\ log = <<>>

NoWorld ==
  /\ issued = <<>>
  /\ now = 0
  /\ conns = <<>>

(* the objects as their constructors leave them *)
(* io: this.io is a server; servers: the Socket.IO servers constructed so   *)
(* far; listeners: the connection handlers installed; out: the last line   *)
(* written by the service, or what it last emitted                         *)
NewSocketService ==
  [io |-> FALSE, events |-> <<>>, servers |-> 0, listeners |-> 0, out |-> ""]
(* the process: pc is where bootstrap stands, trace the steps it has done, *)
(* use the middleware installed on the Socket.IO server, port the port    *)
(* listened on, sigint whether the shutdown handler awaits disconnect,    *)
(* exit the exit code (-1 while the process runs)                         *)
NewProcess(pc, config) ==
  [pc |-> pc, config |-> config, trace |-> <<>>, use |-> <<>>, port |-> 0,
   sigint |-> "none", exit |-> -1]
(* a database connection object: isConnectedFlag and connection are its   *)
(* fields (connection: this.connection is a DataSource), ready is the     *)
(* state of the driver underneath (mongoose.connection.readyState, the    *)
(* DataSource's isInitialized)                                            *)
NewConnection(driver) ==
  [driver |-> driver, isConnectedFlag |-> FALSE, connection |-> FALSE, ready |-> FALSE]
(* a repository: repository is set once initializeRepository has run; rows *)
(* is the table, op the update between its two awaits, ret the last result *)
NoRepo ==
  [repository |-> FALSE, rows |-> {},
   op |-> [kind |-> "none", id |-> 0, entity |-> ""],
   ret |-> [fn |-> "none", value |-> "none", saved |-> "none"]]

NoRest ==
  /\ socketService = NewSocketService
  /\ sockets = <<>>
  /\ boot = NewProcess("off", [port |-> 0])
  /\ db = NewConnection("none")
  /\ repo = NoRepo
  /\ call = [fn |-> "none"]

Init == NoRun /\ NoWorld /\ NoRest

Running(name) == stage = "running" /\ chain[step].mw = name

(* the middleware at step returned: proceed down the chain or stop *)
Apply(result, extra) ==
  /\ carrier' = [carrier EXCEPT !.user = result.user]
  /\ log' = log \o result.events \o extra
  /\ chain' = chain
  /\ UNCHANGED <<world, others>>
  /\ IF result.proceed
     THEN /\ step' = step + 1
          /\ stage' = IF step + 1 > Len(chain) THEN "ended" ELSE "running"
     ELSE /\ step' = step
          /\ stage' = "ended"

(* a handler answered (or threw into errorMiddleware): the request is over *)
Respond(events) ==
  /\ log' = log \o events
  /\ stage' = "ended"
  /\ UNCHANGED <<carrier, chain, step>>
  /\ UNCHANGED <<world, others>>

HttpRequest ==
  /\ stage = "idle"
  /\ \E route \in HttpRoutes, h \in Headers :
       \E required \in (IF route = "GET /admin" THEN RequiredLists ELSE {<<ADMIN>>}),
          id \in Params(route) :
         /\ carrier' = [transport |-> "http", route |-> route, id |-> id, headers |-> TRUE,
                        authorization |-> h, authToken |-> NoValue, user |-> NoUser]
         /\ chain' = RouteChain(route, required)
  /\ step' = 1
  /\ stage' = "running"
  /\ log' = <<>>
  /\ UNCHANGED <<world, others>>

SocketHandshake ==
  /\ stage = "idle"
  /\ \E hs \in Handshakes, c \in SocketChains :
       /\ carrier' = [transport |-> "socket", route |-> "", id |-> <<>>, headers |-> hs[3],
                      authorization |-> hs[2], authToken |-> hs[1], user |-> NoUser]
       /\ chain' = c
  /\ step' = 1
  /\ stage' = "running"
  /\ log' = <<>>
  /\ UNCHANGED <<world, others>>

AuthMiddleware ==
  /\ Running("auth")
  /\ LET token == HttpToken(carrier)
     IN \E o \in (IF token.present THEN jwtVerify(token.v, secret) ELSE {NoOut}) :
          Apply(createAuthMiddleware(carrier, o), <<>>)

HasRoles ==
  /\ Running("hasRoles")
  /\ LET result == hasRoles(chain[step].roles, carrier)
     IN Apply(result,
              IF result.events[Len(result.events)].ev = "throw"
              THEN <<errorMiddleware(GenericError("TypeError"))>>
              ELSE <<>>)

SocketAuthMiddleware ==
  /\ Running("socketAuth")
  /\ LET token == SocketToken(carrier)
     IN \E o \in (IF ~Falsy(token) THEN jwtVerify(token.v, secret) ELSE {NoOut}) :
          Apply(createSocketAuthMiddleware(carrier, o), <<>>)

(* the role gate runs inside the next() call of the middleware before it: *)
(* what it throws arrives in the catch around that call                    *)
SocketRolesMiddleware ==
  /\ Running("socketRoles")
  /\ LET result == createSocketRolesMiddleware(chain[step].roles, carrier)
     IN Apply(result,
              IF /\ result.events[Len(result.events)].ev = "throw"
                 /\ step > 1
                 /\ chain[step - 1].mw = "socketAuth"
              THEN InnerCatch("TypeError")
              ELSE <<>>)

CreateProduct ==
  /\ Running("createProduct")
  /\ \E ok \in BOOLEAN :
       Respond(<<Svc("createProduct", "productService.create"),
                 IF ok THEN Res("createProduct", 201, "")
                 ELSE errorMiddleware(GenericError("Error"))>>)

UpdateProduct ==
  /\ Running("updateProduct")
  /\ \E found \in BOOLEAN :
       Respond(<<Svc("updateProduct", "productService.update"),
                 IF found THEN Res("updateProduct", 200, "")
                 ELSE errorMiddleware(ApiError("Product not found", 404))>>)

DeleteProduct ==
  /\ Running("deleteProduct")
  /\ \E deleted \in BOOLEAN :
       Respond(<<Svc("deleteProduct", "productService.delete"),
                 IF deleted THEN Res("deleteProduct", 204, "")
                 ELSE errorMiddleware(ApiError("Product not found", 404))>>)

GetAllProducts ==
  /\ Running("getAllProducts")
  /\ Respond(<<Svc("getAllProducts", "productService.findAll"), Res("getAllProducts", 200, "")>>)

GetAllUsers ==
  /\ Running("getAllUsers")
  /\ \E ok \in BOOLEAN :
       Respond(<<Svc("getAllUsers", "userService.findAll"),
                 IF ok THEN Res("getAllUsers", 200, "")
                 ELSE Res("getAllUsers", 500, "Failed to get users")>>)

(* userService.findById(req.params.id): a user, null, or a failure *)
GetUserById ==
  /\ Running("getUserById")
  /\ \E found \in {"user", "null", "error"} :
       Respond(<<Svc("getUserById", "userService.findById"),
                 CASE found = "user" -> Res("getUserById", 200, "")
                   [] found = "null" -> Res("getUserById", 404, "User not found")
                   [] OTHER -> Res("getUserById", 500, "Failed to get user")>>)

AdminRoute ==
  /\ Running("adminRoute")
  /\ Respond(<<Res("adminRoute", 200, "Admin access granted")>>)

Next ==
  \/ HttpRequest
  \/ SocketHandshake
  \/ AuthMiddleware
  \/ HasRoles
  \/ SocketAuthMiddleware
  \/ SocketRolesMiddleware
  \/ CreateProduct
  \/ UpdateProduct
  \/ DeleteProduct
  \/ GetAllProducts
  \/ GetAllUsers
  \/ GetUserById
  \/ AdminRoute

Spec == Init /\ [][Next]_vars

-----------------------------------------------------------------------------
(* The two transports on a shared input: the same authorization header is  *)
(* given to the HTTP gate and to the realtime gate, the verifier does the  *)
(* same with the same token, and then both role gates get one role list    *)

Conn(c, st, events, proceed) ==
  [carrier |-> c, stage |-> st, log |-> events, proceed |-> proceed]

(* the connection after a gate ran on it *)
After(conn, result, st) ==
  Conn([conn.carrier EXCEPT !.user = result.user], st, conn.log \o result.events,
       result.proceed)

Transports == {"http", "socket"}

InitEquiv ==
  /\ NoRun
  /\ NoRest
  /\ issued = <<>>
  /\ now = 0
  /\ \E h \in Headers :
       conns = [t \in Transports |->
                  Conn([Idle EXCEPT !.transport = t, !.authorization = h], "new", <<>>, FALSE)]

BothAuthenticate ==
  /\ \A t \in Transports : conns[t].stage = "new"
  /\ LET token == HttpToken(conns["http"].carrier)
     IN \E o \in (IF token.present THEN jwtVerify(token.v, secret) ELSE {NoOut}) :
          conns' = [t \in Transports |->
                      After(conns[t],
                            IF t = "http" THEN createAuthMiddleware(conns[t].carrier, o)
                            ELSE createSocketAuthMiddleware(conns[t].carrier, o),
                            "authenticated")]
  /\ UNCHANGED <<others, run, issued, now>>

BothCheckRoles ==
  /\ \A t \in Transports : conns[t].stage = "authenticated"
  /\ \E roles \in RequiredLists :
       conns' = [t \in Transports |->
                   After(conns[t],
                         IF t = "http" THEN hasRoles(roles, conns[t].carrier)
                         ELSE createSocketRolesMiddleware(roles, conns[t].carrier),
                         "checked")]
  /\ UNCHANGED <<others, run, issued, now>>

NextEquiv == BothAuthenticate \/ BothCheckRoles

SpecEquiv == InitEquiv /\ [][NextEquiv]_vars

-----------------------------------------------------------------------------
(* Tokens: signed by generateToken, presented later by connections that    *)
(* are served side by side, and verified against the clock                 *)

(* jwt.sign(payload, secret, options): the token carries the payload, is   *)
(* bound to the signing secret and expires options.expiresIn from now      *)
jwtSign(payload, sec, options) ==
  [payload |-> payload, secret |-> sec, exp |-> now + options.expiresIn]

(* variant: only the email and the roles of the payload are signed *)
generateToken_WithoutId(payload, sec, expiresIn) ==
  jwtSign([payload EXCEPT !["id"] = Absent], sec, [expiresIn |-> expiresIn])

generateToken(payload, sec, expiresIn) == jwtSign(payload, sec, [expiresIn |-> expiresIn])

TokenNames == {T1, T2}
(* a string that no one signed *)
GARBAGE == <<"x">>

Secrets == {secret, "otherSecret"}

(* { id: user.id, email: user.email, roles: ['user'] } *)
LoginPayload(id) ==
  [EmptyObj EXCEPT !["id"] = Str(id), !["email"] = Str(E1), !["roles"] = Arr(<<USER>>)]

(* a payload signed outside the server, with sub and id *)
ClientPayload ==
  [EmptyObj EXCEPT !["sub"] = Str(S1), !["id"] = Str(O1), !["roles"] = Arr(<<ADMIN>>)]

Unsigned ==
  [signed |-> FALSE, token |-> [payload |-> EmptyObj, secret |-> "", exp |-> 0],
   payload |-> EmptyObj]

(* token is the signed token, payload the payload generateToken was given *)
Signed(token, payload) == [signed |-> TRUE, token |-> token, payload |-> payload]

(* jwt.verify(token, sec) at the present time: a string that is no signed  *)
(* token and a signature made with another secret are JsonWebTokenErrors,  *)
(* checked before the expiry; then the payload is returned                 *)
jwtVerifyIssued(token, sec) ==
  IF token \notin DOMAIN issued \/ ~issued[token].signed THEN Throws("JsonWebTokenError")
  ELSE IF issued[token].token.secret # sec THEN Throws("JsonWebTokenError")
  ELSE IF now >= issued[token].token.exp THEN Throws("TokenExpiredError")
  ELSE Decoded(issued[token].token.payload)

(* variant: the payload is decoded without checking the signature *)
VerifyToken_Unchecked(token) ==
  IF token \in DOMAIN issued
  THEN jwtVerifyIssued(token, issued[token].token.secret)
  ELSE jwtVerifyIssued(token, secret)

(* jwt.verify(token, secret) with the configured secret *)
VerifyToken(token) == jwtVerifyIssued(token, secret)

Conns == 1..MaxConns

(* the token a connection presents: in the header on HTTP, in the auth     *)
(* payload on a socket                                                     *)
Presented(conn) ==
  IF conn.carrier.transport = "http" THEN HttpToken(conn.carrier) ELSE SocketToken(conn.carrier)

(* variant: the Principal is kept in a variable shared by all connections *)
GateRun_SharedUser(c, cs) ==
  LET o == VerifyToken(Presented(cs[c]).v)
      result == IF cs[c].carrier.transport = "http"
                THEN createAuthMiddleware(cs[c].carrier, o)
                ELSE createSocketAuthMiddleware(cs[c].carrier, o)
  IN [d \in DOMAIN cs |->
        IF d = c THEN After(cs[c], result, "done")
        ELSE [cs[d] EXCEPT !.carrier.user = IF cs[d].stage = "done" /\ cs[d].proceed
                                            THEN result.user
                                            ELSE cs[d].carrier.user]]

(* one run of the gate of connection c; cs are all connections *)
GateRun(c, cs) ==
  LET o == VerifyToken(Presented(cs[c]).v)
      result == IF cs[c].carrier.transport = "http"
                THEN createAuthMiddleware(cs[c].carrier, o)
                ELSE createSocketAuthMiddleware(cs[c].carrier, o)
  IN [cs EXCEPT ![c] = After(cs[c], result, "done")]

InitTokens ==
  /\ NoRun
  /\ NoRest
  /\ issued = [t \in TokenNames |-> Unsigned]
  /\ now = 0
  /\ conns = [c \in Conns |-> Conn(Idle, "idle", <<>>, FALSE)]

(* the token table after generateToken returned the string t *)
Issue(t, payload, sec, expiresIn) ==
  [issued EXCEPT ![t] = Signed(generateToken(payload, sec, expiresIn), payload)]

(* AuthController.login signs the user's id, email and role; the token it  *)
(* returns is the string T1                                                *)
Login ==
  /\ ~issued[T1].signed
  /\ \E e \in 1..MaxExpiry : issued' = Issue(T1, LoginPayload(I1), secret, e)
  /\ UNCHANGED <<others, run, now, conns>>

(* a token signed elsewhere, with any secret: the string T2 *)
SignElsewhere ==
  /\ ~issued[T2].signed
  /\ \E sec \in Secrets, e \in 1..MaxExpiry : issued' = Issue(T2, ClientPayload, sec, e)
  /\ UNCHANGED <<others, run, now, conns>>

Tick ==
  /\ now < MaxTime
  /\ now' = now + 1
  /\ UNCHANGED <<others, run, issued, conns>>

Arrive ==
  /\ \E c \in Conns, tr \in Transports,
        t \in {u \in TokenNames : issued[u].signed} \cup {GARBAGE} :
       /\ conns[c].stage = "idle"
       /\ conns' = [conns EXCEPT ![c] =
                      Conn([Idle EXCEPT !.transport = tr,
                                        !.authorization =
                                          IF tr = "http" THEN Value(join(<<BEARER, t>>, " "))
                                          ELSE NoValue,
                                        !.authToken = IF tr = "http" THEN NoValue ELSE Value(t)],
                           "new", <<>>, FALSE)]
  /\ UNCHANGED <<others, run, issued, now>>

Authenticate ==
  /\ \E c \in Conns :
       /\ conns[c].stage = "new"
       /\ conns' = GateRun(c, conns)
  /\ UNCHANGED <<others, run, issued, now>>

NextTokens == Login \/ SignElsewhere \/ Tick \/ Arrive \/ Authenticate

SpecTokens == InitTokens /\ [][NextTokens]_vars

-----------------------------------------------------------------------------
(* Vocabulary of the properties *)

Range(f) == {f[i] : i \in DOMAIN f}

Ran(name) == \E i \in DOMAIN log : log[i].by = name

IsHttp == carrier.transport = "http"
IsSocket == carrier.transport = "socket"

AuthGates == {"auth", "socketAuth"}
RoleGates == {"hasRoles", "socketRoles"}

(* the header has the shape Bearer, one space, a token without a space *)
MatchesBearer(h) ==
  /\ Len(h) > Len(BEARER)
  /\ SubSeq(h, 1, Len(BEARER)) = BEARER
  /\ h[Len(BEARER) + 1] = " "
  /\ \A i \in (Len(BEARER) + 2)..Len(h) : h[i] # " "

(* the rejection a gate signals: a response on HTTP, an Error to the continuation on a socket *)
Rejection(by, status, msg) == IF IsHttp THEN Res(by, status, msg) ELSE NextErr(by, msg)

(* the payload the verifier returned in this run, if it returned one *)
VerifiedObject == \E i \in DOMAIN log : log[i].ev = "verify" /\ log[i].out.kind = "object"
DecodedClaims ==
  IF \E i \in DOMAIN log : log[i].ev = "verify"
  THEN log[CHOOSE i \in DOMAIN log : log[i].ev = "verify"].out.obj
  ELSE EmptyObj

(* the role list of the role gate of the current chain *)
RequiredRoles ==
  IF \E j \in DOMAIN chain : chain[j].mw \in RoleGates
  THEN chain[CHOOSE j \in DOMAIN chain : chain[j].mw \in RoleGates].roles
  ELSE <<>>

Principal == carrier.user.obj

-----------------------------------------------------------------------------
(* C1: whenever the HTTP gate or the realtime gate proceeds to the next    *)
(* handler without an error, a Principal built from the claims the         *)
(* verifier returned for the token of that run is attached to the carrier, *)
(* whatever value the verifier returned.                                   *)
C1_ProceedAttachesPrincipal ==
  \A i \in DOMAIN log :
    (log[i].ev = "next" /\ log[i].by \in AuthGates) =>
      /\ carrier.user.attached
      /\ VerifiedObject
      /\ \A k \in Keys : DecodedClaims[k].t # "absent" /\ k \notin {"id", "email", "roles"}
                            => Principal[k] = DecodedClaims[k]

-----------------------------------------------------------------------------
(* C2: a request without an Authorization header is answered by the HTTP   *)
(* gate with 401 "No authorization header provided"; the verifier is not   *)
(* called and the next handler is not invoked.                             *)
C2_NoHeaderRejected ==
  (IsHttp /\ ~carrier.authorization.present /\ Ran("auth")) =>
    /\ log = <<Res("auth", 401, "No authorization header provided")>>
    /\ stage = "ended"

C2_Witness ==
  /\ IsHttp /\ ~carrier.authorization.present /\ Ran("auth")
  /\ carrier.route \in ProductWriteRoutes

-----------------------------------------------------------------------------
(* C3 as stated: every request whose Authorization header is present but   *)
(* is not "Bearer <token>" is answered with 401 and the format message,    *)
(* without a verifier call and without invoking the next handler.          *)
C3_PresentMalformedHeaderRejected ==
  (IsHttp /\ carrier.authorization.present /\ Ran("auth")
     /\ ~MatchesBearer(carrier.authorization.v)) =>
    /\ log = <<Res("auth", 401, FormatMessage)>>
    /\ stage = "ended"

(* C3 amended: every request whose Authorization header is a non-empty     *)
(* string that is not "Bearer <token>" is answered with 401 and the format *)
(* message, without a verifier call and without invoking the next handler. *)
C3_NonEmptyMalformedHeaderRejected ==
  (IsHttp /\ carrier.authorization.present /\ Ran("auth")
     /\ carrier.authorization.v # <<>>
     /\ ~MatchesBearer(carrier.authorization.v)) =>
    /\ log = <<Res("auth", 401, FormatMessage)>>
    /\ stage = "ended"

C3_Witness ==
  /\ IsHttp /\ Ran("auth")
  /\ carrier.authorization = Value(join(<<BEARER, T1, T1>>, " "))

-----------------------------------------------------------------------------
(* C4: on both transports a verifier failure is mapped by kind: an expiry  *)
(* error gives "Token expired", any other JsonWebTokenError gives "Invalid *)
(* token format", any other error gives "Invalid token"; the HTTP status   *)
(* is 401, the realtime continuation receives an Error with the message,   *)
(* no Principal is attached and the run does not proceed.                  *)
C4_MessageOf(err) ==
  CASE err = "TokenExpiredError" -> "Token expired"
    [] err = "JsonWebTokenError" -> "Invalid token format"
    [] OTHER -> "Invalid token"

C4_VerifierFailureMapped ==
  \A i \in DOMAIN log :
    (log[i].ev = "verify" /\ log[i].out.kind = "throw") =>
      /\ Len(log) = i + 1
      /\ log[i + 1] = Rejection(log[i].by, 401, C4_MessageOf(log[i].out.err))
      /\ ~carrier.user.attached
      /\ stage = "ended"

C4_Witness ==
  /\ IsSocket
  /\ \E i \in DOMAIN log : log[i].ev = "verify" /\ log[i].out = Throws("TokenExpiredError")

-----------------------------------------------------------------------------
(* C5: the id of the attached Principal is the token's sub claim if sub is *)
(* present, else its id claim, else the empty string.                      *)
C5_IdIsSubThenId ==
  carrier.user.attached =>
    Principal["id"] = (IF DecodedClaims["sub"].t # "absent" THEN DecodedClaims["sub"]
                       ELSE IF DecodedClaims["id"].t # "absent" THEN DecodedClaims["id"]
                       ELSE Str(<<>>))

-----------------------------------------------------------------------------
(* C6: on every attached Principal id and email are strings and roles is a *)
(* sequence, empty when the roles claim is absent or not a sequence; these *)
(* normalized values win over same-named raw claims, and every other raw   *)
(* claim is copied verbatim.                                               *)
C6_NormalizedFieldsWin ==
  carrier.user.attached =>
    /\ Principal["id"].t = "string"
    /\ Principal["email"].t = "string"
    /\ Principal["roles"] = (IF DecodedClaims["roles"].t = "array"
                             THEN DecodedClaims["roles"] ELSE Arr(<<>>))
    /\ \A k \in Keys \ {"id", "email", "roles"} : Principal[k] = DecodedClaims[k]

-----------------------------------------------------------------------------
(* C7: with a Principal attached whose roles are a sequence, the role gate *)
(* for required roles R proceeds if and only if some element of R is an    *)
(* element of that sequence (order and duplicates are irrelevant);         *)
(* otherwise it rejects with "Insufficient permissions" (403 on HTTP) and  *)
(* the run does not proceed.                                               *)
C7_RoleGateAnyMatch ==
  \A i \in DOMAIN log :
    (log[i].by \in RoleGates /\ carrier.user.attached /\ Principal["roles"].t = "array") =>
      IF Range(RequiredRoles) \cap Range(Principal["roles"].a) # {}
      THEN log[i] = NextOk(log[i].by)
      ELSE /\ log[i] = Rejection(log[i].by, 403, "Insufficient permissions")
           /\ Len(log) = i
           /\ stage = "ended"

C7_Witness ==
  /\ carrier.user.attached
  /\ Principal["roles"] = Arr(<<USER, EDITOR>>)
  /\ RequiredRoles = <<ADMIN, EDITOR>>
  /\ \E i \in DOMAIN log : log[i] = NextOk("hasRoles")

-----------------------------------------------------------------------------
(* C8: with no Principal attached the role gate rejects with "User not     *)
(* authenticated" (401 on HTTP, an Error to the continuation on a socket)  *)
(* for every required role list, and the run does not proceed.             *)
C8_NoPrincipalRejected ==
  \A i \in DOMAIN log :
    (log[i].by \in RoleGates /\ ~carrier.user.attached) =>
      /\ log[i] = Rejection(log[i].by, 401, "User not authenticated")
      /\ Len(log) = i
      /\ stage = "ended"

C8_Witness ==
  /\ ~carrier.user.attached
  /\ Len(RequiredRoles) = 2
  /\ \E i \in DOMAIN log : log[i].by = "hasRoles"

-----------------------------------------------------------------------------
(* C9: on POST /products, PUT /products/:id and DELETE /products/:id the   *)
(* product service is called only after the auth gate accepted the token   *)
(* and the role gate found the role admin on the Principal; without a      *)
(* credential the answer is 401, with a valid token lacking admin it is    *)
(* 403, and in both cases the service is never called.                     *)
C9_HasAdmin(claims) == claims["roles"].t = "array" /\ ADMIN \in Range(claims["roles"].a)

C9_ProductWritesAdminOnly ==
  (IsHttp /\ carrier.route \in ProductWriteRoutes) =>
    /\ \A i \in DOMAIN log :
         log[i].ev = "svc" =>
           /\ \E j \in 1..(i - 1) : log[j] = NextOk("auth")
           /\ \E j \in 1..(i - 1) : log[j] = NextOk("hasRoles")
           /\ VerifiedObject /\ C9_HasAdmin(DecodedClaims)
    /\ (stage = "ended" /\ ~carrier.authorization.present) =>
         log = <<Res("auth", 401, "No authorization header provided")>>
    /\ (stage = "ended" /\ VerifiedObject /\ ~C9_HasAdmin(DecodedClaims)) =>
         /\ log[Len(log)].ev = "res" /\ log[Len(log)].status = 403
         /\ \A i \in DOMAIN log : log[i].ev # "svc"

-----------------------------------------------------------------------------
(* C10: a request to GET /users without an Authorization header is         *)
(* rejected with 401 and userService.findAll is never called.              *)
C10_UsersListNeedsCredential ==
  (IsHttp /\ carrier.route = "GET /users" /\ ~carrier.authorization.present /\ stage = "ended") =>
    /\ log[Len(log)].ev = "res" /\ log[Len(log)].status = 401
    /\ \A i \in DOMAIN log : log[i].msg # "userService.findAll"

-----------------------------------------------------------------------------
(* C11: GET /users/:id is answered with the user only to a request whose   *)
(* attached Principal has the id :id or the role admin; a request whose    *)
(* Principal has another id and lacks admin is answered 403 and never      *)
(* reaches userService.findById.                                           *)
C11_UserByIdSelfOrAdmin ==
  (IsHttp /\ carrier.route = "GET /users/:id") =>
    \A i \in DOMAIN log :
      log[i].ev = "svc" =>
        /\ carrier.user.attached
        /\ \/ Principal["id"] = Str(carrier.id)
           \/ (Principal["roles"].t = "array" /\ ADMIN \in Range(Principal["roles"].a))

-----------------------------------------------------------------------------
(* C13: when the realtime gate finds no token (the handshake carries no    *)
(* auth-payload token and its authorization header is absent or is not     *)
(* "Bearer <token>"), the continuation receives the Error "Authentication  *)
(* required" and nothing else happens: no format error, no verifier call.  *)
C13_NoTokenAuthenticationRequired ==
  (/\ IsSocket /\ Ran("socketAuth")
   /\ carrier.headers
   /\ ~carrier.authToken.present
   /\ ~carrier.authorization.present \/ ~MatchesBearer(carrier.authorization.v)) =>
    log = <<NextErr("socketAuth", "Authentication required")>>

C13_Witness ==
  /\ IsSocket
  /\ ~carrier.authToken.present
  /\ carrier.authorization.present
  /\ carrier.authorization.v # <<>>
  /\ ~MatchesBearer(carrier.authorization.v)
  /\ log = <<NextErr("socketAuth", "Authentication required")>>

-----------------------------------------------------------------------------
(* C14 as stated: a present auth-payload token is the token handed to the  *)
(* verifier; the Bearer token of the header is handed to it only when the  *)
(* auth-payload token is absent.                                           *)
C14_PresentAuthPayloadTokenFirst ==
  IsSocket =>
    \A i \in DOMAIN log :
      log[i].ev = "verify" =>
        log[i].tok = IF carrier.authToken.present
                     THEN carrier.authToken.v
                     ELSE SubSeq(carrier.authorization.v, Len(BEARER) + 2,
                                 Len(carrier.authorization.v))

(* C14 amended: a non-empty auth-payload token is the token handed to the  *)
(* verifier and the header is not read at all (a handshake without headers *)
(* is verified all the same); the Bearer token of the header is handed to  *)
(* the verifier only when the auth-payload token is absent or empty.       *)
C14_NonEmptyAuthPayloadTokenFirst ==
  IsSocket =>
    /\ \A i \in DOMAIN log :
         log[i].ev = "verify" =>
           log[i].tok = IF carrier.authToken.present /\ carrier.authToken.v # <<>>
                        THEN carrier.authToken.v
                        ELSE SubSeq(carrier.authorization.v, Len(BEARER) + 2,
                                    Len(carrier.authorization.v))
    /\ (Ran("socketAuth") /\ carrier.authToken.present /\ carrier.authToken.v # <<>>) =>
         (log[1].ev = "verify" /\ log[1].tok = carrier.authToken.v)

C14_Witness ==
  /\ IsSocket
  /\ carrier.authToken = Value(T2)
  /\ carrier.authorization = Value(join(<<BEARER, T1>>, " "))
  /\ log # <<>>
  /\ log[1].ev = "verify" /\ log[1].tok = T2

-----------------------------------------------------------------------------
(* C15: no exception leaves the realtime gate; an exception raised while   *)
(* the token is extracted (outside the classified verification failures)   *)
(* reaches the continuation as the Error "Authentication failed".          *)
C15_NoExceptionEscapes ==
  IsSocket =>
    /\ \A i \in DOMAIN log : ~(log[i].by = "socketAuth" /\ log[i].ev = "throw")
    /\ (Ran("socketAuth") /\ ~carrier.headers /\ Falsy(carrier.authToken)) =>
         log = <<NextErr("socketAuth", "Authentication failed")>>

C15_Witness ==
  /\ IsSocket
  /\ ~carrier.headers
  /\ log = <<NextErr("socketAuth", "Authentication failed")>>

-----------------------------------------------------------------------------
(* C16: given the same authorization header (no auth-payload token) and    *)
(* the same verifier outcome, the HTTP gate and the realtime gate both     *)
(* accept and attach identical Principals, or both reject; given the same  *)
(* Principal and role list the two role gates decide alike.                *)
C16_TransportsAgree ==
  (DOMAIN conns = Transports /\ conns["http"].stage # "new") =>
    /\ conns["http"].proceed = conns["socket"].proceed
    /\ conns["http"].carrier.user = conns["socket"].carrier.user

C16_Witness ==
  /\ DOMAIN conns = Transports
  /\ conns["http"].stage = "checked"
  /\ conns["socket"].log[Len(conns["socket"].log)] = NextOk("socketRoles")
  /\ conns["http"].log[Len(conns["http"].log)] = NextOk("hasRoles")
  /\ conns["http"].carrier.user.attached

-----------------------------------------------------------------------------
(* C17: a run of the HTTP gate passes header check, format check and       *)
(* verification in that order and ends in exactly one outcome: next called *)
(* once and no response, or one response and no next; a run of the         *)
(* realtime gate calls its continuation exactly once.                      *)
Count(by, evs) == Cardinality({i \in DOMAIN log : log[i].by = by /\ log[i].ev \in evs})

-----------------------------------------------------------------------------
(* C20: a run of the HTTP gate or of the realtime gate calls the verifier  *)
(* at most once; a verification that failed is not tried again: the call   *)
(* is directly followed by the outcome of the gate.                        *)
C20_VerifierAtMostOnce ==
  \A g \in AuthGates :
    /\ Count(g, {"verify"}) <= 1
    /\ \A i \in DOMAIN log :
         (log[i].by = g /\ log[i].ev = "verify") =>
           /\ i < Len(log)
           /\ log[i + 1].by = g
           /\ log[i + 1].ev \in {"next", "nextErr", "res"}

C20_Witness ==
  /\ stage = "ended"
  /\ \E i \in DOMAIN log : log[i].ev = "verify" /\ log[i].out.kind = "throw"
  /\ \A g \in AuthGates : Count(g, {"verify"}) <= 1

-----------------------------------------------------------------------------
(* C12: a token signed with a secret other than the configured one is      *)
(* rejected by both gates with "Invalid token format" and no Principal is  *)
(* attached, whatever its claims and whether or not it has expired.        *)
SignedWith(conn) == issued[Presented(conn).v].token.secret

C12_ForeignSecretRejected ==
  \A c \in DOMAIN conns :
    (/\ conns[c].stage = "done"
     /\ Presented(conns[c]).v \in TokenNames
     /\ SignedWith(conns[c]) # secret) =>
      /\ ~conns[c].proceed
      /\ ~conns[c].carrier.user.attached
      /\ conns[c].log[Len(conns[c].log)] =
           IF conns[c].carrier.transport = "http"
           THEN Res("auth", 401, "Invalid token format")
           ELSE NextErr("socketAuth", "Invalid token format")

(* both gates have refused a foreign token *)
C12_Witness ==
  /\ DOMAIN conns = Conns
  /\ \E c, d \in Conns :
       /\ conns[c].carrier.transport = "http" /\ conns[d].carrier.transport = "socket"
       /\ \A e \in {c, d} :
            /\ conns[e].stage = "done"
            /\ Presented(conns[e]).v \in TokenNames
            /\ SignedWith(conns[e]) # secret
            /\ ~conns[e].proceed

-----------------------------------------------------------------------------
(* C18: connections served in any interleaving that present the same valid *)
(* token get Principals with identical field values, and the Principal of  *)
(* a connection is built from the claims of the token that connection      *)
(* presented, whatever other connections presented before or after.        *)
C18_PrincipalFromOwnToken ==
  \A c \in DOMAIN conns :
    (conns[c].stage = "done" /\ conns[c].proceed) =>
      /\ conns[c].carrier.user =
           Attached(BuildUser(issued[Presented(conns[c]).v].token.payload))
      /\ \A d \in DOMAIN conns :
           (/\ conns[d].stage = "done" /\ conns[d].proceed
            /\ Presented(conns[d]).v = Presented(conns[c]).v) =>
             conns[d].carrier.user = conns[c].carrier.user

(* two connections accepted with one token while a token with another      *)
(* payload is in circulation                                               *)
C18_Witness ==
  /\ DOMAIN conns = Conns
  /\ \E c, d \in Conns :
       /\ c # d
       /\ conns[c].stage = "done" /\ conns[c].proceed
       /\ conns[d].stage = "done" /\ conns[d].proceed
       /\ Presented(conns[c]).v = Presented(conns[d]).v
       /\ conns[c].carrier.user.attached
       /\ \E t \in TokenNames :
            /\ issued[t].signed
            /\ issued[t].token.payload # issued[Presented(conns[c]).v].token.payload

-----------------------------------------------------------------------------
(* C19: a token made by generateToken(p, secret, expiry) for a payload p   *)
(* with an id and verified with the same secret before its expiry is       *)
(* accepted, the verifier returns the claims of p, id included, and the    *)
(* Principal has that id: the payload reached the signer as it was given.  *)
(* A token that has not expired now had not expired when it was verified.  *)
C19_RoundTrip ==
  \A c \in DOMAIN conns :
    LET t == Presented(conns[c]).v
    IN (/\ conns[c].stage = "done"
        /\ t \in TokenNames
        /\ issued[t].token.secret = secret
        /\ issued[t].payload["id"].t = "string"
        /\ now < issued[t].token.exp) =>
         /\ conns[c].proceed
         /\ conns[c].log[1].ev = "verify"
         /\ conns[c].log[1].out = Decoded(issued[t].payload)
         /\ conns[c].carrier.user.attached
         /\ conns[c].carrier.user.obj["id"] = issued[t].payload["id"]

(* a token of the login and a token with sub and id have made the trip *)
C19_Witness ==
  /\ DOMAIN conns = Conns
  /\ \E c, d \in Conns :
       /\ conns[c].stage = "done" /\ conns[c].proceed
       /\ conns[d].stage = "done" /\ conns[d].proceed
       /\ conns[c].carrier.user.obj["id"] = Str(I1)
       /\ conns[d].carrier.user.obj["id"] = Str(O1)
       /\ conns[d].carrier.user.obj["sub"] = Str(S1)

-----------------------------------------------------------------------------
(* SocketService: src/src/services/socket.service.ts *)

EventNames == {"ping", "message:sent", "test-event"}

(* a SocketEvent; handler numbers the handler functions: 0 the predefined  *)
(* pong reply, -1 the disconnect logger, k the k-th registration           *)
SocketEvent(name, handler) == [name |-> name, handler |-> handler]

PingEvent == SocketEvent("ping", 0)

(* this.events.push(event) *)
registerEvent(svc, event) ==
  [svc EXCEPT !.events = Append(svc.events, event),
              !.out = "Socket event registered"]

(* variant: the guard on this.io is missing *)
initialize_NoGuard(svc) ==
  [registerEvent([svc EXCEPT !.io = TRUE,
                             !.servers = svc.servers + 1,
                             !.listeners = svc.listeners + 1], PingEvent)
     EXCEPT !.out = "Socket.IO server initialized"]

(* the server is constructed, the connection handler installed and the  *)
(* predefined events registered, unless this.io is set                  *)
initialize(svc) ==
  IF svc.io THEN [svc EXCEPT !.out = "Socket.IO server already initialized"]
  ELSE [registerEvent([svc EXCEPT !.io = TRUE,
                                  !.servers = svc.servers + 1,
                                  !.listeners = svc.listeners + 1], PingEvent)
          EXCEPT !.out = "Socket.IO server initialized"]

(* variant: the first registered event is left out *)
registerEvents_SkipFirst(events) ==
  IF events = <<>> THEN <<>> ELSE Tail(events)

(* the socket.on calls of registerEvents(socket), in order *)
registerEvents(events) == events

Initialize ==
  /\ Len(socketService.events) < MaxEvents
  /\ socketService' = initialize(socketService)
  /\ UNCHANGED <<sockets, run, world, boot, db, repo, call>>

RegisterEvent ==
  /\ Len(socketService.events) < MaxEvents
  /\ \E name \in EventNames :
       socketService' =
         registerEvent(socketService, SocketEvent(name, Len(socketService.events) + 1))
  /\ UNCHANGED <<sockets, run, world, boot, db, repo, call>>

(* a client connects: the connection handler registers the events on *)
(* the socket and then the disconnect handler                         *)
SocketConnect ==
  /\ socketService.servers > 0
  /\ Len(sockets) < MaxSockets
  /\ sockets' = Append(sockets,
                        [on |-> registerEvents(socketService.events)
                                  \o <<SocketEvent("disconnect", -1)>>])
  /\ socketService' = [socketService EXCEPT !.out = "Client connected"]
  /\ UNCHANGED <<run, world, boot, db, repo, call>>

Emit ==
  /\ \E event \in EventNames :
       socketService' =
         [socketService EXCEPT !.out = IF socketService.io THEN "emit " \o event
                                       ELSE "Socket.IO server not initialized"]
  /\ UNCHANGED <<sockets, run, world, boot, db, repo, call>>

EmitToRoom ==
  /\ \E event \in EventNames :
       socketService' =
         [socketService EXCEPT !.out = IF socketService.io THEN "emit room1 " \o event
                                       ELSE "Socket.IO server not initialized"]
  /\ UNCHANGED <<sockets, run, world, boot, db, repo, call>>

NextSocket == Initialize \/ RegisterEvent \/ SocketConnect \/ Emit \/ EmitToRoom

(* the service as constructed, nothing else running *)
SpecSocket == Init /\ [][NextSocket]_vars

-----------------------------------------------------------------------------
(* C21: whatever initialize, registerEvent, emit and emitToRoom calls were *)
(* made on the service, at most one Socket.IO server was ever created, one *)
(* connection handler installed and the predefined event registered once.  *)
C21_OneServer ==
  /\ socketService.servers <= 1
  /\ socketService.listeners <= 1
  /\ Cardinality({i \in DOMAIN socketService.events :
                    socketService.events[i] = PingEvent}) <= 1

(* initialize was called on the initialized service *)
C21_Witness ==
  /\ socketService.out = "Socket.IO server already initialized"
  /\ socketService.servers = 1
  /\ Len(socketService.events) > 1

-----------------------------------------------------------------------------
(* C28: a socket gets its handlers when its connection is handled: exactly *)
(* the events registered until then, the predefined ping among them, in    *)
(* order, followed by the disconnect handler; nothing is attached to it or *)
(* removed from it afterwards, whatever is registered later.               *)
C28_HandlersFixedAtConnection ==
  [][/\ \A i \in DOMAIN sockets : sockets'[i] = sockets[i]
     /\ Len(sockets') > Len(sockets) =>
          /\ Len(sockets') = Len(sockets) + 1
          /\ sockets'[Len(sockets')].on =
               socketService.events \o <<SocketEvent("disconnect", -1)>>
          /\ PingEvent \in {socketService.events[i] : i \in DOMAIN socketService.events}]_vars

(* an event was registered after a socket connected and is not on it *)
C28_Witness ==
  /\ sockets # <<>>
  /\ Len(sockets[1].on) < Len(socketService.events) + 1
  /\ PingEvent \in {sockets[1].on[i] : i \in DOMAIN sockets[1].on}
  /\ \E i \in DOMAIN socketService.events :
       /\ socketService.events[i].name = "test-event"
       /\ socketService.events[i] \notin {sockets[1].on[j] : j \in DOMAIN sockets[1].on}

-----------------------------------------------------------------------------
(* Calls of the controllers: the error handler and its responses,          *)
(* src/src/middlewares/error.middleware.ts, src/src/utils/response.util.ts, *)
(* and the creation of a product, src/unnamed/part_011 (ProductService),    *)
(* src/unnamed/part_008 (ProductBuilder).                                   *)
(* An optional property is <<>> when undefined and <<v>> when it holds v.   *)

(* what handlers throw: new ApiError(message, statusCode, errors) as made  *)
(* by the helpers ApiError.badRequest, conflict,                           *)
(* unauthorized, forbidden, notFound and internal with their default       *)
(* message or a message of the caller, and errors of other classes         *)
ThrownErrors ==
  LET maps == {<<>>, <<{}>>, <<{<<"name", "required">>}>>,
               <<{<<"name", "required">>, <<"price", "negative">>}>>}
  IN {ApiError(m, 400) @@ [errors |-> e] : m \in {"Bad Request", "m1"}, e \in maps}
       \cup {ApiError(m, 409) @@ [errors |-> e] : m \in {"Conflict", "m1"}, e \in maps}
       \cup {ApiError(c[1], c[2]) @@ [errors |-> <<>>] :
               c \in {<<"Unauthorized", 401>>, <<"m1", 401>>, <<"Forbidden", 403>>,
                      <<"m1", 403>>, <<"Not Found", 404>>, <<"m1", 404>>,
                      <<"Internal Server Error", 500>>, <<"m1", 500>>}}
       \cup {[name |-> n, statusCode |-> 0, message |-> "m1", errors |-> e] :
               n \in {"ValidationError", "UnauthorizedError", "TypeError"},
               e \in {<<>>, <<{<<"name", "required">>}>>}}

(* res.status(status).json({ success: false, message, errors?, stack? }) *)
JsonError(status, message, errors, stack) ==
  [status |-> status,
   body |-> [success |-> FALSE, message |-> message, errors |-> errors, stack |-> stack]]

(* errorMiddleware with the whole response it sends: badRequest carries   *)
(* the errors, serverError the stack outside production                   *)
errorResponse(err, production) ==
  IF err.name = "ApiError"
  THEN CASE err.statusCode = 400 -> JsonError(400, err.message, err.errors, FALSE)
         [] err.statusCode = 401 -> JsonError(401, err.message, <<>>, FALSE)
         [] err.statusCode = 403 -> JsonError(403, err.message, <<>>, FALSE)
         [] err.statusCode = 404 -> JsonError(404, err.message, <<>>, FALSE)
         [] OTHER -> JsonError(500, err.message, <<>>, ~production)
  ELSE IF err.name = "ValidationError" THEN JsonError(400, err.message, err.errors, FALSE)
  ELSE IF err.name = "UnauthorizedError" THEN JsonError(401, err.message, <<>>, FALSE)
  ELSE JsonError(500, "Internal Server Error", <<>>, ~production)

ProductKeys ==
  {"_id", "name", "type", "description", "price", "inventory", "isFeatured",
   "createdAt", "updatedAt"}

(* the CreateProductDTOs a caller may send *)
CreateProductDTOs ==
  [name : {<<"">>, <<"Chair">>},
   type : {<<"">>, <<"Furniture">>},
   description : {<<>>, <<"">>, <<"A chair">>},
   price : {<<>>, <<0>>, <<5>>},
   inventory : {<<>>, <<0>>, <<5>>},
   isFeatured : {<<>>, <<FALSE>>, <<TRUE>>}]

(* ProductBuilder.fromDTO: name and type are set when truthy, the others   *)
(* when not undefined                                                      *)
fromDTO(dto) ==
  [k \in ProductKeys |->
     CASE k \in {"name", "type"} -> IF dto[k] \notin {<<>>, <<"">>} THEN dto[k] ELSE <<>>
       [] k \in {"description", "price", "inventory", "isFeatured"} -> dto[k]
       [] OTHER -> <<>>]

(* what build() throws, "" when it returns *)
buildThrows(product) ==
  IF product["name"] \in {<<>>, <<"">>} THEN "Product name is required"
  ELSE IF product["type"] \in {<<>>, <<"">>} THEN "Product type is required"
  ELSE ""

(* ProductBuilder.build(): defaults and timestamps *)
build(product, date) ==
  [k \in ProductKeys |->
     CASE k = "price" -> IF product[k] = <<>> THEN <<0>> ELSE product[k]
       [] k = "inventory" -> IF product[k] = <<>> THEN <<0>> ELSE product[k]
       [] k = "isFeatured" -> IF product[k] = <<>> THEN <<FALSE>> ELSE product[k]
       [] k \in {"createdAt", "updatedAt"} ->
            IF product[k] = <<>> THEN <<date>> ELSE product[k]
       [] OTHER -> product[k]]

(* ProductService.toResponseDTO *)
toResponseDTO(product) ==
  [k \in (ProductKeys \ {"_id"}) \cup {"productId"} |->
     IF k = "productId"
     THEN IF product["_id"] \in {<<>>, <<"">>} THEN <<"">> ELSE product["_id"]
     ELSE product[k]]

(* a handler throws or passes an error to next *)
Raise ==
  /\ call.fn \in {"none", "errorMiddleware", "create:returned"}
  /\ \E err \in ThrownErrors : call' = [fn |-> "raise", err |-> err]
  /\ UNCHANGED <<run, world, socketService, sockets, boot, db, repo>>

ErrorMiddleware ==
  /\ call.fn = "raise"
  /\ \E production \in BOOLEAN :
       call' = [fn |-> "errorMiddleware", err |-> call.err,
                res |-> errorResponse(call.err, production)]
  /\ UNCHANGED <<run, world, socketService, sockets, boot, db, repo>>

(* ProductService.create up to its await: the product is built and handed *)
(* to the repository, or build() throws                                    *)
ProductCreate ==
  /\ call.fn \in {"none", "errorMiddleware", "create:returned"}
  /\ \E dto \in CreateProductDTOs, date \in {1, 2} :
       LET builder == fromDTO(dto) IN
       call' = IF buildThrows(builder) # ""
               THEN [fn |-> "raise",
                     err |-> [name |-> "Error", statusCode |-> 0,
                              message |-> buildThrows(builder), errors |-> <<>>]]
               ELSE [fn |-> "create:repository", dto |-> dto, arg |-> build(builder, date)]
  /\ UNCHANGED <<run, world, socketService, sockets, boot, db, repo>>

(* the repository resolves with the stored entity, which is turned into *)
(* the response                                                          *)
ProductCreated ==
  /\ call.fn = "create:repository"
  /\ \E id \in {<<>>, <<"2">>} :
       LET entity == [call.arg EXCEPT !["_id"] = id] IN
       call' = [fn |-> "create:returned", dto |-> call.dto, arg |-> call.arg,
                entity |-> entity, result |-> toResponseDTO(entity)]
  /\ UNCHANGED <<run, world, socketService, sockets, boot, db, repo>>

NextCalls == Raise \/ ErrorMiddleware \/ ProductCreate \/ ProductCreated

(* no call made yet *)
SpecCalls == Init /\ [][NextCalls]_vars

-----------------------------------------------------------------------------
(* C22: the error handler answers an ApiError of status 400, 401, 403,     *)
(* 404, 409 or 500 with the status code and the message the error carries, *)
(* and with its errors map when it has one.                                *)
C22_ApiErrorAnswered ==
  (call.fn = "errorMiddleware" /\ call.err.name = "ApiError"
     /\ call.err.statusCode \in {400, 401, 403, 404, 409, 500}) =>
    /\ call.res.status = call.err.statusCode
    /\ call.res.body.message = call.err.message
    /\ call.err.errors # <<>> => call.res.body.errors = call.err.errors

-----------------------------------------------------------------------------
(* C23: create(dto) hands the repository exactly the DTO's fields, none    *)
(* added, removed or changed, and returns the response DTO of the entity   *)
(* the repository returned.                                                *)
C23_CreatePassesDto ==
  /\ call.fn \in {"create:repository", "create:returned"} =>
       call.arg = [k \in ProductKeys |-> IF k \in DOMAIN call.dto THEN call.dto[k] ELSE <<>>]
  /\ call.fn = "create:returned" => call.result = toResponseDTO(call.entity)

-----------------------------------------------------------------------------
(* The process, src/unnamed/part_003, its database connection,            *)
(* src/src/database/mongodb.connection.ts, and the TypeORM repository it  *)
(* serves requests from, src/src/repositories/sql/base.repository.ts      *)

(* connect(): ok tells whether the driver's connect resolves *)
connect(d, ok) ==
  IF d.driver = "mongo"
  THEN IF ok THEN [d EXCEPT !.ready = TRUE, !.isConnectedFlag = TRUE] ELSE d
  ELSE IF ok THEN [d EXCEPT !.connection = TRUE, !.ready = TRUE, !.isConnectedFlag = TRUE]
       ELSE [d EXCEPT !.connection = TRUE, !.ready = FALSE]

(* disconnect(); destroy() of a DataSource that is not initialized throws *)
disconnect(d) ==
  IF d.driver = "mongo"
  THEN IF d.ready THEN [d EXCEPT !.ready = FALSE, !.isConnectedFlag = FALSE] ELSE d
  ELSE IF d.connection /\ d.ready
       THEN [d EXCEPT !.ready = FALSE, !.isConnectedFlag = FALSE]
       ELSE d

(* getConnection(): TRUE when it returns, FALSE when it throws *)
getConnection(d) ==
  IF d.driver = "mongo" THEN d.isConnectedFlag ELSE d.connection

isConnected(d) == d.isConnectedFlag

(* variant: listening starts before Socket.IO is set up *)
BootSteps_ListenEarly ==
  <<"server", "build", "errorMiddleware", "createServer", "listen", "initialize", "io.use">>

(* the statements of bootstrap after the connect, in program order *)
BootSteps ==
  <<"server", "build", "errorMiddleware", "createServer", "initialize", "io.use", "listen">>

(* the statements stmts, run in order on the process and the socket service *)
RECURSIVE RunSteps(_, _)
RunSteps(st, stmts) ==
  IF stmts = <<>> THEN st
  ELSE LET stmt == Head(stmts)
           b == [st.boot EXCEPT !.trace = Append(st.boot.trace, stmt)]
       IN RunSteps(
            CASE stmt = "initialize" -> [boot |-> b, svc |-> initialize(st.svc)]
              [] stmt = "io.use" ->
                   [boot |-> IF st.svc.io
                             THEN [b EXCEPT !.use = Append(b.use, "socketAuth")]
                             ELSE b,
                    svc |-> st.svc]
              [] stmt = "listen" ->
                   [boot |-> [b EXCEPT !.port = IF b.config.port # 0 THEN b.config.port
                                                ELSE 3000],
                    svc |-> st.svc]
              [] OTHER -> [boot |-> b, svc |-> st.svc],
            Tail(stmts))

(* catch (error) { process.exit(1) } *)
Fail(b, what) == [b EXCEPT !.trace = Append(b.trace, what), !.pc = "exited", !.exit = 1]

(* bootstrap up to the end of await dbConnection.connect() *)
BootConnect ==
  /\ boot.pc = "start" /\ boot.exit = -1
  /\ \E ok \in BOOLEAN :
       /\ db' = connect(db, ok)
       /\ boot' = IF ok THEN [boot EXCEPT !.pc = "connected",
                                          !.trace = Append(boot.trace, "connect")]
                  ELSE Fail(boot, "connect failed")
  /\ UNCHANGED <<socketService, repo, run, world, sockets, call>>

(* the rest of bootstrap, which has no await: the first n statements run, *)
(* and the next one throws unless all have run                            *)
BootServe ==
  /\ boot.pc = "connected" /\ boot.exit = -1
  /\ \E n \in 0..Len(BootSteps) :
       LET st == RunSteps([boot |-> boot, svc |-> socketService], SubSeq(BootSteps, 1, n)) IN
       /\ boot' = IF n = Len(BootSteps) THEN [st.boot EXCEPT !.pc = "listen"]
                  ELSE Fail(st.boot, "threw")
       /\ socketService' = st.svc
  /\ UNCHANGED <<db, repo, run, world, sockets, call>>

(* the port is bound and the callback of listen runs, or the server emits *)
(* an error nobody handles                                                *)
BootListening ==
  /\ boot.pc = "listen" /\ boot.exit = -1
  /\ \E ok \in BOOLEAN :
       boot' = IF ok THEN [boot EXCEPT !.pc = "listening",
                                      !.trace = Append(boot.trace, "listening")]
               ELSE Fail(boot, "listen failed")
  /\ UNCHANGED <<db, socketService, repo, run, world, sockets, call>>

(* the SIGINT handler up to the end of await dbConnection.disconnect() *)
Sigint ==
  /\ boot.pc # "off" /\ boot.exit = -1 /\ boot.sigint = "none"
  /\ db' = disconnect(db)
  /\ boot' = [boot EXCEPT !.sigint = IF db.driver = "postgres" /\ db.connection /\ ~db.ready
                                  THEN "threw" ELSE "closed"]
  /\ UNCHANGED <<socketService, repo, run, world, sockets, call>>

(* process.exit(0), or process.exit(1) when disconnect threw *)
SigintExit ==
  /\ boot.sigint # "none" /\ boot.exit = -1
  /\ boot' = [boot EXCEPT !.pc = "exited", !.exit = IF boot.sigint = "threw" THEN 1 ELSE 0]
  /\ UNCHANGED <<db, socketService, repo, run, world, sockets, call>>

IdsOf(rows) == {r[1] : r \in rows}

(* repository.save(entity): inserts when there is no row of that id *)
save(rows, id, value) == {r \in rows : r[1] # id} \cup {<<id, value>>}

(* initializeRepository() and the first query: throws unless the          *)
(* connection is handed out and its DataSource is initialized             *)
RepositoryThrows ==
  IF repo.repository THEN ~db.ready ELSE ~(getConnection(db) /\ db.ready)

(* requests reach the repository while the server listens *)
RepoCreate ==
  /\ boot.pc = "listening" /\ boot.exit = -1 /\ db.driver = "postgres"
  /\ \E id \in (1..MaxIds) \ IdsOf(repo.rows), n \in {"a", "b"} :
       repo' = IF RepositoryThrows
               THEN [repo EXCEPT !.ret = [fn |-> "create", value |-> "threw", saved |-> "none"]]
               ELSE [repo EXCEPT !.repository = TRUE,
                                 !.rows = save(repo.rows, id, n),
                                 !.ret = [fn |-> "create", value |-> "entity",
                                          saved |-> "insert"]]
  /\ UNCHANGED <<boot, db, socketService, run, world, sockets, call>>

(* update up to the await of findById; entity is <<>> when it changes *)
(* nothing, <<v>> when it sets the value, and repository.merge lays it *)
(* over the entity found                                                *)
RepoUpdateFind ==
  /\ boot.pc = "listening" /\ boot.exit = -1 /\ db.driver = "postgres"
  /\ repo.op.kind = "none"
  /\ \E id \in 1..MaxIds, entity \in {<<>>, <<"a">>, <<"b">>} :
       repo' = IF RepositoryThrows
               THEN [repo EXCEPT !.ret = [fn |-> "update", value |-> "threw", saved |-> "none"]]
               ELSE IF id \notin IdsOf(repo.rows)
               THEN [repo EXCEPT !.repository = TRUE,
                                 !.ret = [fn |-> "update", value |-> "null", saved |-> "none"]]
               ELSE [repo EXCEPT !.repository = TRUE,
                                 !.op = [kind |-> "update", id |-> id,
                                         entity |->
                                           IF entity = <<>>
                                           THEN (CHOOSE r \in repo.rows : r[1] = id)[2]
                                           ELSE entity[1]]]
  /\ UNCHANGED <<boot, db, socketService, run, world, sockets, call>>

(* update after findById resolved with an entity: merge and save *)
RepoUpdateSave ==
  /\ boot.exit = -1
  /\ repo.op.kind = "update"
  /\ repo' = IF ~db.ready
             THEN [repo EXCEPT !.op = NoRepo.op,
                               !.ret = [fn |-> "update", value |-> "threw", saved |-> "none"]]
             ELSE [repo EXCEPT !.op = NoRepo.op,
                               !.rows = save(repo.rows, repo.op.id, repo.op.entity),
                               !.ret = [fn |-> "update", value |-> "entity",
                                        saved |-> IF repo.op.id \in IdsOf(repo.rows)
                                                  THEN "update" ELSE "insert"]]
  /\ UNCHANGED <<boot, db, socketService, run, world, sockets, call>>

RepoDelete ==
  /\ boot.pc = "listening" /\ boot.exit = -1 /\ db.driver = "postgres"
  /\ \E id \in 1..MaxIds :
       repo' = IF RepositoryThrows
               THEN [repo EXCEPT !.ret = [fn |-> "delete", value |-> "threw", saved |-> "none"]]
               ELSE [repo EXCEPT !.repository = TRUE,
                                 !.rows = {r \in repo.rows : r[1] # id},
                                 !.ret = [fn |-> "delete",
                                          value |-> IF id \in IdsOf(repo.rows)
                                                    THEN "true" ELSE "false",
                                          saved |-> "none"]]
  /\ UNCHANGED <<boot, db, socketService, run, world, sockets, call>>

(* config.port: 0 stands for a port that is not configured *)
InitBoot ==
  /\ NoRun /\ NoWorld
  /\ socketService = NewSocketService /\ sockets = <<>>
  /\ repo = NoRepo /\ call = [fn |-> "none"]
  /\ \E driver \in {"mongo", "postgres"} : db = NewConnection(driver)
  /\ \E config \in {[port |-> 0], [port |-> 8080]} : boot = NewProcess("start", config)

NextBoot ==
  \/ BootConnect \/ BootServe \/ BootListening \/ Sigint \/ SigintExit
  \/ RepoCreate \/ RepoUpdateFind \/ RepoUpdateSave \/ RepoDelete

SpecBoot == InitBoot /\ [][NextBoot]_vars

-----------------------------------------------------------------------------
(* C24: at startup the database is connected before the HTTP server is    *)
(* built, and the server is built and the Socket.IO authentication         *)
(* middleware installed before listening starts; when the connect fails    *)
(* the process exits with code 1 and never listens.                        *)
C24_StartupOrder ==
  LET Done(a) == \E i \in DOMAIN boot.trace : boot.trace[i] = a
      Before(a, b) ==
        \E i, j \in DOMAIN boot.trace : i < j /\ boot.trace[i] = a /\ boot.trace[j] = b
  IN /\ Done("build") => Before("connect", "build")
     /\ Done("listen") =>
          /\ Before("connect", "listen")
          /\ Before("build", "listen")
          /\ Before("initialize", "io.use")
          /\ Before("io.use", "listen")
          /\ boot.use = <<"socketAuth">>
     /\ Done("connect failed") => boot.exit = 1 /\ ~Done("listen") /\ ~Done("build")

(* the server listens on the default port with the gate installed *)
C24_Witness ==
  /\ boot.pc = "listening"
  /\ boot.port = 3000
  /\ boot.use = <<"socketAuth">>
  /\ socketService.io

-----------------------------------------------------------------------------
(* C29: with either driver, getConnection returns exactly when isConnected *)
(* is true and throws otherwise, also after a failed connect and after a   *)
(* disconnect.                                                             *)
C29_GetConnectionIffConnected ==
  db.driver # "none" => (getConnection(db) <=> isConnected(db))

-----------------------------------------------------------------------------
(* C30: update never creates an entity: when the entity does not exist at  *)
(* the moment update saves, update has inserted nothing (and returns null). *)
C30_UpdateNeverCreates ==
  repo.ret.fn = "update" => repo.ret.saved # "insert"

-----------------------------------------------------------------------------
(* C25: a run passes the auth gate and then the role gate for required     *)
(* roles R only if the roles claim of the verified token is a sequence     *)
(* with an element of R in it; a roles claim that is not a sequence never  *)
(* grants access.                                                          *)
C25_AccessNeedsRoleInSequence ==
  \A i \in DOMAIN log :
    (log[i].by \in RoleGates /\ log[i].ev = "next") =>
      /\ VerifiedObject
      /\ DecodedClaims["roles"].t = "array"
      /\ Range(RequiredRoles) \cap Range(DecodedClaims["roles"].a) # {}

-----------------------------------------------------------------------------
-----------------------------------------------------------------------------
(* C27: neither gate calls the verifier with an empty token: the header    *)
(* "Bearer", one space, empty token is rejected before verification on     *)
(* HTTP as on the realtime transport.                                      *)
C27_VerifierNeverGetsEmptyToken ==
  \A i \in DOMAIN log : log[i].ev = "verify" => log[i].tok # <<>>

====
